---------------------------- MODULE Spec2Model ----------------------------
(***************************************************************************)
(* State-machine model of the HabitFlow native shell                       *)
(* (src-tauri/src/lib.rs, fn run): the shared quitting flag, the tray      *)
(* menu callback, the tray icon callback and the window close guard.       *)
(*                                                                         *)
(* The runtime dispatches callbacks one at a time on the UI thread, so     *)
(* each callback is one atomic action.  Every runtime call whose Result    *)
(* the code discards with `let _ =` (show, set_focus, emit, hide) takes    *)
(* its outcome as an input of the action: Ok applies the effect, Err       *)
(* leaves the window as it was.                                            *)
(***************************************************************************)
EXTENDS Naturals, Sequences, FiniteSets

\* Number of callbacks the runtime dispatches in one run of the model.
MaxEvents == 3

\* Exit code passed to app.exit on quit.
QuitExitCode == 0

\* Window labels: the one label the tray looks up, and one other window.
MainLabel == "main"

Labels == {MainLabel, "settings"}

NoWindow == "none"

\* Menu item ids given to MenuItem::with_id; Menu::with_items holds these three.
MenuIds == {"open", "add_habit", "quit"}

\* Tray icon interactions: Click carries a button and a button state.
TrayIconEvents ==
    [kind : {"Click"}, button : {"Left", "Right", "Middle"}, button_state : {"Up", "Down"}]
        \cup [kind : {"DoubleClick", "Enter", "Move", "Leave"}, button : {"-"}, button_state : {"-"}]

\* Window events: the close request and some of the others.
WindowEvents == {"CloseRequested", "Focused", "Resized"}

\* Outcomes of the runtime calls whose Result the callbacks discard.
Outcomes == [show : BOOLEAN, focus : BOOLEAN, emit : BOOLEAN]

VARIABLES
    process,        \* "Starting", "Running", "Exiting", "Terminated" or "Aborted"
    exitCode,       \* <<>> while no exit was asked for, <<c>> after app.exit(c)
    debugBuild,     \* cfg!(debug_assertions) of this build
    trayInstalled,  \* TrayIconBuilder::build succeeded
    startup,        \* "pending", or the first step of startup that failed, or "none"
    quitting,       \* AppState.quitting
    stores,         \* number of stores made to AppState.quitting
    windows,        \* label -> "Absent", "Visible", "Hidden" or "Destroyed"
    focused,        \* label of the window holding input focus, or NoWindow
    emitted,        \* number of tray:add-habit events emitted on the main window
    addHabitSelections, \* number of add_habit selections dispatched
    hiddenByGuard,  \* labels of the windows a close request has hidden so far
    dispatched,     \* number of callbacks dispatched
    event,          \* the event of the most recent callback
    calls           \* runtime calls made by the most recent callback, in order

vars == <<process, exitCode, debugBuild, trayInstalled, startup, quitting, stores, windows,
          focused, emitted, addHabitSelections, hiddenByGuard, dispatched, event, calls>>

NoEvent == [src |-> "none", id |-> "-", target |-> "-", button |-> "-", button_state |-> "-"]

MenuEvent(id) ==
    [src |-> "menu", id |-> id, target |-> "-", button |-> "-", button_state |-> "-"]

TrayEvent(ev) ==
    [src |-> "tray", id |-> ev.kind, target |-> "-", button |-> ev.button,
     button_state |-> ev.button_state]

WindowEvent(label, kind) ==
    [src |-> "window", id |-> kind, target |-> label, button |-> "-", button_state |-> "-"]

Call(name, target, ok) == [call |-> name, target |-> target, ok |-> ok]

----------------------------------------------------------------------------
\* Runtime calls made by the callbacks.

\* app.get_webview_window(label) is Some(w) for a window that exists.
Exists(label) == windows[label] \in {"Visible", "Hidden"}

\* Mutant: show makes every existing window visible, not only the one asked for.
Show_All(ws, label, ok) ==
    IF ok THEN [l \in DOMAIN ws |-> IF ws[l] = "Hidden" THEN "Visible" ELSE ws[l]]
          ELSE ws

\* w.show(): visible on Ok; the Err is discarded.
Show(ws, label, ok) == IF ok THEN [ws EXCEPT ![label] = "Visible"] ELSE ws

\* w.set_focus(): takes input focus on Ok; the Err is discarded.
SetFocus(f, label, ok) == IF ok THEN label ELSE f

\* window.hide(): hidden, and without input focus, on Ok; the Err is discarded.
Hide(ws, label, ok) == IF ok THEN [ws EXCEPT ![label] = "Hidden"] ELSE ws

Unfocus(f, label, ok) == IF ok /\ f = label THEN NoWindow ELSE f

\* The event loop dispatches callbacks from run() until the process ends.
Dispatching == process \in {"Running", "Exiting"}

----------------------------------------------------------------------------
TypeOK ==
    /\ process \in {"Starting", "Running", "Exiting", "Terminated", "Aborted"}
    /\ exitCode \in {<<>>, <<QuitExitCode>>}
    /\ debugBuild \in BOOLEAN
    /\ trayInstalled \in BOOLEAN
    /\ startup \in {"pending", "none", "plugin", "menu", "icon", "tray", "log"}
    /\ quitting \in BOOLEAN
    /\ stores \in 0..MaxEvents
    /\ windows \in [Labels -> {"Absent", "Visible", "Hidden", "Destroyed"}]
    /\ focused \in Labels \cup {NoWindow}
    /\ emitted \in 0..MaxEvents
    /\ addHabitSelections \in 0..MaxEvents
    /\ hiddenByGuard \subseteq Labels
    /\ dispatched \in 0..MaxEvents

\* The state built by tauri::Builder before setup runs: quitting is false;
\* which windows the configuration creates, and how, is not fixed by the shell.
Init ==
    /\ process = "Starting"
    /\ exitCode = <<>>
    /\ debugBuild \in BOOLEAN
    /\ trayInstalled = FALSE
    /\ startup = "pending"
    /\ quitting = FALSE
    /\ stores = 0
    /\ windows \in [Labels -> {"Absent", "Visible", "Hidden"}]
    /\ focused \in {l \in Labels : windows[l] = "Visible"} \cup {NoWindow}
    /\ emitted = 0
    /\ addHabitSelections = 0
    /\ hiddenByGuard = {}
    /\ dispatched = 0
    /\ event = NoEvent
    /\ calls = <<>>

----------------------------------------------------------------------------
\* Mutant: setup goes on without an icon when the default icon is missing.
SetupOk_IconOptional(menuOk, iconOk, trayOk, logOk) ==
    /\ menuOk
    /\ trayOk
    /\ (debugBuild => logOk)

\* Mutant: setup discards the Result of attaching the log plugin.
SetupOk_LogIgnored(menuOk, iconOk, trayOk, logOk) ==
    /\ menuOk
    /\ iconOk
    /\ trayOk

\* setup: every step ends in `?`, so the first failure is the result.
SetupOk(menuOk, iconOk, trayOk, logOk) ==
    /\ menuOk
    /\ iconOk
    /\ trayOk
    /\ (debugBuild => logOk)

\* The tray is built once the menu, the icon and build(app) succeeded.
TrayBuilt(menuOk, iconOk, trayOk) == menuOk /\ iconOk /\ trayOk

\* The first step of startup to return Err, in program order: the plugins
\* given to the Builder, the menu items and menu, the default window icon,
\* the tray build and, in a debug build only, the log plugin.
FirstFailure(pluginsOk, menuOk, iconOk, trayOk, logOk) ==
    CASE ~pluginsOk -> "plugin"
      [] ~menuOk -> "menu"
      [] ~iconOk -> "icon"
      [] ~trayOk -> "tray"
      [] debugBuild /\ ~logOk -> "log"
      [] OTHER -> "none"

\* Builder ... .setup(..).run(..).expect(..): the application runs if the
\* plugins initialise and setup returns Ok, and panics otherwise.
Bootstrap(pluginsOk, menuOk, iconOk, trayOk, logOk) ==
    /\ process = "Starting"
    /\ trayInstalled' = (pluginsOk /\ TrayBuilt(menuOk, iconOk, trayOk))
    /\ startup' = FirstFailure(pluginsOk, menuOk, iconOk, trayOk, logOk)
    /\ process' = IF pluginsOk /\ SetupOk(menuOk, iconOk, trayOk, logOk)
                    THEN "Running" ELSE "Aborted"
    /\ UNCHANGED <<exitCode, debugBuild, quitting, stores, windows, focused, emitted,
                   addHabitSelections, hiddenByGuard, dispatched, event, calls>>

----------------------------------------------------------------------------
\* Mutant: open shows the main window but does not give it focus.
MenuOpen_NoFocus(r) ==
    /\ IF Exists(MainLabel)
         THEN /\ windows' = Show(windows, MainLabel, r.show)
              /\ calls' = <<Call("show", MainLabel, r.show)>>
         ELSE /\ UNCHANGED windows
              /\ calls' = <<>>
    /\ UNCHANGED <<process, exitCode, quitting, stores, emitted, focused>>

\* Mutant: open unwraps the window lookup and panics when there is none.
MenuOpen_Unwrap(r) ==
    /\ IF Exists(MainLabel)
         THEN /\ windows' = Show(windows, MainLabel, r.show)
              /\ focused' = SetFocus(focused, MainLabel, r.focus)
              /\ calls' = <<Call("show", MainLabel, r.show),
                            Call("set_focus", MainLabel, r.focus)>>
              /\ UNCHANGED process
         ELSE /\ UNCHANGED <<windows, focused>>
              /\ calls' = <<>>
              /\ process' = "Aborted"
    /\ UNCHANGED <<exitCode, quitting, stores, emitted>>

\* on_menu_event, id == "open": show and focus the main window if it exists.
MenuOpen(r) ==
    /\ IF Exists(MainLabel)
         THEN /\ windows' = Show(windows, MainLabel, r.show)
              /\ focused' = SetFocus(focused, MainLabel, r.focus)
              /\ calls' = <<Call("show", MainLabel, r.show),
                            Call("set_focus", MainLabel, r.focus)>>
         ELSE /\ UNCHANGED <<windows, focused>>
              /\ calls' = <<>>
    /\ UNCHANGED <<process, exitCode, quitting, stores, emitted>>

\* Mutant: add_habit emits the event before it shows and focuses the window.
MenuAddHabit_EmitFirst(r) ==
    /\ IF Exists(MainLabel)
         THEN /\ windows' = Show(windows, MainLabel, r.show)
              /\ focused' = SetFocus(focused, MainLabel, r.focus)
              /\ emitted' = IF r.emit THEN emitted + 1 ELSE emitted
              /\ calls' = <<Call("emit", MainLabel, r.emit),
                            Call("show", MainLabel, r.show),
                            Call("set_focus", MainLabel, r.focus)>>
         ELSE /\ UNCHANGED <<windows, focused, emitted>>
              /\ calls' = <<>>
    /\ UNCHANGED <<process, exitCode, quitting, stores>>

\* Mutant: add_habit emits the event on the window and on the application.
MenuAddHabit_EmitTwice(r) ==
    /\ IF Exists(MainLabel)
         THEN /\ windows' = Show(windows, MainLabel, r.show)
              /\ focused' = SetFocus(focused, MainLabel, r.focus)
              /\ emitted' = IF r.emit THEN emitted + 2 ELSE emitted
              /\ calls' = <<Call("show", MainLabel, r.show),
                            Call("set_focus", MainLabel, r.focus),
                            Call("emit", MainLabel, r.emit)>>
         ELSE /\ UNCHANGED <<windows, focused, emitted>>
              /\ calls' = <<>>
    /\ UNCHANGED <<process, exitCode, quitting, stores>>

\* Mutant: add_habit returns at the first call that fails.
MenuAddHabit_Propagate(r) ==
    /\ IF Exists(MainLabel)
         THEN /\ windows' = Show(windows, MainLabel, r.show)
              /\ focused' = IF r.show THEN SetFocus(focused, MainLabel, r.focus)
                                      ELSE focused
              /\ emitted' = IF r.show /\ r.focus /\ r.emit THEN emitted + 1 ELSE emitted
              /\ calls' = IF ~r.show THEN <<Call("show", MainLabel, FALSE)>>
                          ELSE IF ~r.focus
                            THEN <<Call("show", MainLabel, TRUE),
                                   Call("set_focus", MainLabel, FALSE)>>
                            ELSE <<Call("show", MainLabel, TRUE),
                                   Call("set_focus", MainLabel, TRUE),
                                   Call("emit", MainLabel, r.emit)>>
         ELSE /\ UNCHANGED <<windows, focused, emitted>>
              /\ calls' = <<>>
    /\ UNCHANGED <<process, exitCode, quitting, stores>>

\* on_menu_event, id == "add_habit": show, focus, then emit tray:add-habit.
MenuAddHabit(r) ==
    /\ IF Exists(MainLabel)
         THEN /\ windows' = Show(windows, MainLabel, r.show)
              /\ focused' = SetFocus(focused, MainLabel, r.focus)
              /\ emitted' = IF r.emit THEN emitted + 1 ELSE emitted
              /\ calls' = <<Call("show", MainLabel, r.show),
                            Call("set_focus", MainLabel, r.focus),
                            Call("emit", MainLabel, r.emit)>>
         ELSE /\ UNCHANGED <<windows, focused, emitted>>
              /\ calls' = <<>>
    /\ UNCHANGED <<process, exitCode, quitting, stores>>

\* Mutant: quit sets the flag and leaves the exit to the next close.
MenuQuit_FlagOnly(now) ==
    /\ quitting' = TRUE
    /\ stores' = stores + 1
    /\ calls' = <<>>
    /\ UNCHANGED <<process, exitCode, windows, focused, emitted>>

\* Mutant: quit exits with a failure code.
MenuQuit_ExitFailure(now) ==
    /\ quitting' = TRUE
    /\ stores' = stores + 1
    /\ exitCode' = <<1>>
    /\ process' = IF now THEN "Terminated" ELSE "Exiting"
    /\ calls' = <<Call("exit", "-", TRUE)>>
    /\ UNCHANGED <<windows, focused, emitted>>

\* Mutant: quit toggles the flag instead of storing true.
MenuQuit_Toggle(now) ==
    /\ quitting' = ~quitting
    /\ stores' = stores + 1
    /\ exitCode' = <<QuitExitCode>>
    /\ process' = IF now THEN "Terminated" ELSE "Exiting"
    /\ calls' = <<Call("exit", "-", TRUE)>>
    /\ UNCHANGED <<windows, focused, emitted>>

\* on_menu_event, id == "quit": store true, then app.exit(0).  The exit is
\* a request to the event loop ("Allow next close to actually quit"): the
\* process ends with the requested code either before control returns or
\* when the loop handles the request (RunExit), after the events already
\* queued.
MenuQuit(now) ==
    /\ quitting' = TRUE
    /\ stores' = stores + 1
    /\ exitCode' = <<QuitExitCode>>
    /\ process' = IF now THEN "Terminated" ELSE "Exiting"
    /\ calls' = <<Call("exit", "-", TRUE)>>
    /\ UNCHANGED <<windows, focused, emitted>>

\* The tray's menu callback: dispatch on the id of the selected item.
OnMenuEvent(id, r, now) ==
    /\ Dispatching
    /\ trayInstalled
    /\ dispatched < MaxEvents
    /\ dispatched' = dispatched + 1
    /\ event' = MenuEvent(id)
    /\ addHabitSelections' = IF id = "add_habit" THEN addHabitSelections + 1
                                                 ELSE addHabitSelections
    /\ CASE id = "open" -> MenuOpen(r)
         [] id = "add_habit" -> MenuAddHabit(r)
         [] id = "quit" -> MenuQuit(now)
         [] OTHER -> /\ calls' = <<>>
                     /\ UNCHANGED <<process, exitCode, quitting, stores, windows,
                                    focused, emitted>>
    /\ UNCHANGED <<debugBuild, trayInstalled, startup, hiddenByGuard>>

\* Mutant: only a released left button shows the main window.
OnTrayIconEvent_LeftUpOnly(ev, r) ==
    /\ Dispatching
    /\ trayInstalled
    /\ dispatched < MaxEvents
    /\ dispatched' = dispatched + 1
    /\ event' = TrayEvent(ev)
    /\ IF ev.kind = "Click" /\ ev.button = "Left" /\ ev.button_state = "Up"
          /\ Exists(MainLabel)
         THEN /\ windows' = Show(windows, MainLabel, r.show)
              /\ focused' = SetFocus(focused, MainLabel, r.focus)
              /\ calls' = <<Call("show", MainLabel, r.show),
                            Call("set_focus", MainLabel, r.focus)>>
         ELSE /\ UNCHANGED <<windows, focused>>
              /\ calls' = <<>>
    /\ UNCHANGED <<process, exitCode, debugBuild, trayInstalled, startup, quitting,
                   stores, emitted, addHabitSelections, hiddenByGuard>>

\* The tray's icon callback: any Click shows and focuses the main window.
OnTrayIconEvent(ev, r) ==
    /\ Dispatching
    /\ trayInstalled
    /\ dispatched < MaxEvents
    /\ dispatched' = dispatched + 1
    /\ event' = TrayEvent(ev)
    /\ IF ev.kind = "Click" /\ Exists(MainLabel)
         THEN /\ windows' = Show(windows, MainLabel, r.show)
              /\ focused' = SetFocus(focused, MainLabel, r.focus)
              /\ calls' = <<Call("show", MainLabel, r.show),
                            Call("set_focus", MainLabel, r.focus)>>
         ELSE /\ UNCHANGED <<windows, focused>>
              /\ calls' = <<>>
    /\ UNCHANGED <<process, exitCode, debugBuild, trayInstalled, startup, quitting,
                   stores, emitted, addHabitSelections, hiddenByGuard>>

\* A close request the callback did not prevent: the runtime destroys the window.
DefaultClose(ws, label) == [ws EXCEPT ![label] = "Destroyed"]

\* Mutant: the guard hides the window but does not call prevent_close.
CloseRequested_NoPrevent(label, hideOk) ==
    /\ windows' = DefaultClose(Hide(windows, label, hideOk), label)
    /\ focused' = Unfocus(focused, label, TRUE)
    /\ calls' = <<Call("hide", label, hideOk)>>
    /\ UNCHANGED <<quitting, stores, hiddenByGuard>>

\* Mutant: the guard clears the flag once it has let a close through.
CloseRequested_ResetFlag(label, hideOk) ==
    IF ~quitting
      THEN /\ windows' = Hide(windows, label, hideOk)
           /\ focused' = Unfocus(focused, label, hideOk)
           /\ hiddenByGuard' = IF hideOk THEN hiddenByGuard \cup {label} ELSE hiddenByGuard
           /\ calls' = <<Call("prevent_close", label, TRUE), Call("hide", label, hideOk)>>
           /\ UNCHANGED <<quitting, stores>>
      ELSE /\ windows' = DefaultClose(windows, label)
           /\ focused' = Unfocus(focused, label, TRUE)
           /\ calls' = <<>>
           /\ quitting' = FALSE
           /\ stores' = stores + 1
           /\ UNCHANGED hiddenByGuard

\* Mutant: the guard tests the flag the wrong way round.
CloseRequested_Inverted(label, hideOk) ==
    IF quitting
      THEN /\ windows' = Hide(windows, label, hideOk)
           /\ focused' = Unfocus(focused, label, hideOk)
           /\ hiddenByGuard' = IF hideOk THEN hiddenByGuard \cup {label} ELSE hiddenByGuard
           /\ calls' = <<Call("prevent_close", label, TRUE), Call("hide", label, hideOk)>>
           /\ UNCHANGED <<quitting, stores>>
      ELSE /\ windows' = DefaultClose(windows, label)
           /\ focused' = Unfocus(focused, label, TRUE)
           /\ calls' = <<>>
           /\ UNCHANGED <<quitting, stores, hiddenByGuard>>

\* Mutant: the guard prevents the close and hides without reading the flag.
CloseRequested_AlwaysHide(label, hideOk) ==
    /\ windows' = Hide(windows, label, hideOk)
    /\ focused' = Unfocus(focused, label, hideOk)
    /\ hiddenByGuard' = IF hideOk THEN hiddenByGuard \cup {label} ELSE hiddenByGuard
    /\ calls' = <<Call("prevent_close", label, TRUE), Call("hide", label, hideOk)>>
    /\ UNCHANGED <<quitting, stores>>

\* The window guard on CloseRequested: unless quitting, prevent the close
\* and hide the window; when quitting, do nothing, and the close proceeds.
CloseRequested(label, hideOk) ==
    IF ~quitting
      THEN /\ windows' = Hide(windows, label, hideOk)
           /\ focused' = Unfocus(focused, label, hideOk)
           /\ hiddenByGuard' = IF hideOk THEN hiddenByGuard \cup {label} ELSE hiddenByGuard
           /\ calls' = <<Call("prevent_close", label, TRUE), Call("hide", label, hideOk)>>
           /\ UNCHANGED <<quitting, stores>>
      ELSE /\ windows' = DefaultClose(windows, label)
           /\ focused' = Unfocus(focused, label, TRUE)
           /\ calls' = <<>>
           /\ UNCHANGED <<quitting, stores, hiddenByGuard>>

\* Mutant: a close request ends the process like quit does.
OnWindowEvent_ExitOnClose(label, kind, hideOk) ==
    /\ Dispatching
    /\ Exists(label)
    /\ dispatched < MaxEvents
    /\ dispatched' = dispatched + 1
    /\ event' = WindowEvent(label, kind)
    /\ IF kind = "CloseRequested"
         THEN /\ CloseRequested(label, hideOk)
              /\ process' = "Terminated"
              /\ exitCode' = <<QuitExitCode>>
         ELSE /\ calls' = <<>>
              /\ UNCHANGED <<windows, focused, quitting, stores, hiddenByGuard,
                             process, exitCode>>
    /\ UNCHANGED <<debugBuild, trayInstalled, startup, emitted, addHabitSelections>>

\* Mutant: the callback also hides a window on its Focused event.
OnWindowEvent_HideOnFocused(label, kind, hideOk) ==
    /\ Dispatching
    /\ Exists(label)
    /\ dispatched < MaxEvents
    /\ dispatched' = dispatched + 1
    /\ event' = WindowEvent(label, kind)
    /\ IF kind = "CloseRequested"
         THEN CloseRequested(label, hideOk)
         ELSE IF kind = "Focused"
           THEN /\ windows' = Hide(windows, label, hideOk)
                /\ focused' = Unfocus(focused, label, hideOk)
                /\ calls' = <<Call("hide", label, hideOk)>>
                /\ UNCHANGED <<quitting, stores, hiddenByGuard>>
           ELSE /\ calls' = <<>>
                /\ UNCHANGED <<windows, focused, quitting, stores, hiddenByGuard>>
    /\ UNCHANGED <<process, exitCode, debugBuild, trayInstalled, startup, emitted,
                   addHabitSelections>>

\* The window callback, run for every event of every window.
OnWindowEvent(label, kind, hideOk) ==
    /\ Dispatching
    /\ Exists(label)
    /\ dispatched < MaxEvents
    /\ dispatched' = dispatched + 1
    /\ event' = WindowEvent(label, kind)
    /\ IF kind = "CloseRequested"
         THEN CloseRequested(label, hideOk)
         ELSE /\ calls' = <<>>
              /\ UNCHANGED <<windows, focused, quitting, stores, hiddenByGuard>>
    /\ UNCHANGED <<process, exitCode, debugBuild, trayInstalled, startup, emitted,
                   addHabitSelections>>

\* The event loop handles the exit request of app.exit: the process ends.
RunExit ==
    /\ process = "Exiting"
    /\ process' = "Terminated"
    /\ UNCHANGED <<exitCode, debugBuild, trayInstalled, startup, quitting, stores, windows,
                   focused, emitted, addHabitSelections, hiddenByGuard, dispatched,
                   event, calls>>

Next ==
    \/ \E pluginsOk, menuOk, iconOk, trayOk, logOk \in BOOLEAN :
           Bootstrap(pluginsOk, menuOk, iconOk, trayOk, logOk)
    \/ \E id \in MenuIds, r \in Outcomes, now \in BOOLEAN : OnMenuEvent(id, r, now)
    \/ \E ev \in TrayIconEvents, r \in Outcomes : OnTrayIconEvent(ev, r)
    \/ \E label \in Labels, kind \in WindowEvents, hideOk \in BOOLEAN :
           OnWindowEvent(label, kind, hideOk)
    \/ RunExit

Spec == Init /\ [][Next]_vars

\* The event loop does handle a pending exit request.
FairSpec == Spec /\ WF_vars(RunExit)

----------------------------------------------------------------------------
\* Events of the most recent callback, as the claims name them.

CloseHandled == event.src = "window" /\ event.id = "CloseRequested"

Selected(id) == event = MenuEvent(id)

Clicked == event.src = "tray" /\ event.id = "Click"

----------------------------------------------------------------------------
\* C1 as stated: while quit was never selected, after each close request
\* the window is Hidden (and so not destroyed).
C1_CloseAlwaysHides ==
    (CloseHandled /\ ~quitting) => windows[event.target] = "Hidden"

\* C1, amended: while quit was never selected no window is ever destroyed,
\* and each close request is suppressed (prevent_close, then hide): the
\* window still exists after it, and is Hidden and without focus when hide
\* returned Ok.
C1_CloseSuppressed ==
    /\ ~quitting => \A l \in Labels : windows[l] # "Destroyed"
    /\ (CloseHandled /\ ~quitting) =>
          /\ Len(calls) = 2
          /\ calls[1] = Call("prevent_close", event.target, TRUE)
          /\ calls[2].call = "hide" /\ calls[2].target = event.target
          /\ Exists(event.target)
          /\ calls[2].ok => (windows[event.target] = "Hidden" /\ focused # event.target)

\* C1 witness: a second close request of a window, suppressed and hidden.
C1_Witness ==
    /\ CloseHandled /\ ~quitting
    /\ dispatched >= 2
    /\ event.target \in hiddenByGuard
    /\ windows[event.target] = "Hidden"

\* C2 as stated: selecting open with the main window registered leaves it
\* Visible and focused.
C2_OpenAlwaysShows ==
    (Selected("open") /\ Exists(MainLabel)) =>
        (windows[MainLabel] = "Visible" /\ focused = MainLabel)

\* C2, amended: a main window the guard has hidden stays registered while
\* quit was not selected, and selecting open with the main window
\* registered calls show and then set_focus on it: it is Visible when show
\* returned Ok and focused when set_focus returned Ok.
C2_OpenReachesMain ==
    /\ (MainLabel \in hiddenByGuard /\ ~quitting) => Exists(MainLabel)
    /\ (Selected("open") /\ Exists(MainLabel)) =>
          /\ Len(calls) = 2
          /\ calls[1].call = "show" /\ calls[1].target = MainLabel
          /\ calls[2].call = "set_focus" /\ calls[2].target = MainLabel
          /\ calls[1].ok => windows[MainLabel] = "Visible"
          /\ calls[2].ok => focused = MainLabel

\* C2 witness: the main window was hidden by a close request and the next
\* callback, open, made it Visible and focused.
C2_Witness ==
    /\ dispatched = 2
    /\ MainLabel \in hiddenByGuard
    /\ Selected("open") /\ ~quitting
    /\ windows[MainLabel] = "Visible" /\ focused = MainLabel

\* C3: selecting quit leads to the process terminated with exit code 0,
\* whatever the windows are, and a terminated process has exit code 0.
C3_QuitTerminates ==
    /\ [](process = "Terminated" => exitCode = <<QuitExitCode>>)
    /\ (Selected("quit") ~> (process = "Terminated" /\ exitCode = <<QuitExitCode>>))

\* C3 witness: terminated by quit with exit code 0 while the main window
\* was Hidden.
C3_Witness ==
    /\ Selected("quit")
    /\ process = "Terminated" /\ exitCode = <<QuitExitCode>>
    /\ windows[MainLabel] = "Hidden"

\* C4 as stated: once quit has been selected no callback runs any more.
C4_NothingAfterQuit == [][quitting => dispatched' = dispatched]_vars

\* C4, amended: once quit has been selected the exit with code 0 is pending
\* or done, and once the process has terminated nothing changes any more
\* (Terminated is absorbing); callbacks dispatched before the exit request
\* is handled still run.
C4_TerminatedAbsorbing ==
    /\ [](quitting => (process \in {"Exiting", "Terminated"}
                        /\ exitCode = <<QuitExitCode>>))
    /\ [][process = "Terminated" => UNCHANGED vars]_vars

\* C4 witness: terminated by quit with callbacks left to dispatch and a
\* main window they could act on.
C4_Witness ==
    /\ process = "Terminated" /\ quitting
    /\ dispatched < MaxEvents
    /\ Exists(MainLabel)

\* C5: quitting is false at bootstrap and, once true, stays true.
C5_QuittingMonotone == ~quitting /\ [][quitting => quitting']_vars

\* C5 witness: after quit a close request went through the guard's
\* allow-close branch and the flag is still true.
C5_Witness ==
    /\ quitting /\ process = "Exiting"
    /\ CloseHandled /\ windows[event.target] = "Destroyed"

\* C6 as stated: the flag is stored at most once in a process lifetime.
C6_WrittenOnce == stores <= 1 /\ (stores = 1 => quitting)

\* C6, amended: every store to the flag is made by the quit selection and
\* stores true, so the value changes at most once, from false to true; a
\* quit dispatched while the exit request is pending stores true again.
\* Every other callback leaves the flag and the number of stores unchanged.
C6_OnlyQuitWrites ==
    /\ [][(stores' # stores \/ quitting' # quitting) =>
             /\ event' = MenuEvent("quit") /\ dispatched' = dispatched + 1
             /\ quitting' /\ stores' = stores + 1]_vars
    /\ [][(dispatched' # dispatched /\ event' # MenuEvent("quit")) =>
             UNCHANGED <<quitting, stores>>]_vars
    /\ [](quitting <=> stores > 0)

\* C6 witness: quit stored the flag once and a later tray click left it alone.
C6_Witness ==
    /\ quitting /\ stores = 1
    /\ Clicked /\ process = "Exiting"

\* C7: a callback that emits tray:add-habit has called show and then
\* set_focus on the main window first, and emits as its third and last call;
\* the count of emitted events grows only by such an emit.
C7_ShowFocusBeforeEmit ==
    /\ [](\A i \in DOMAIN calls : calls[i].call = "emit" =>
            /\ i = 3 /\ Len(calls) = 3
            /\ calls[1].call = "show" /\ calls[1].target = MainLabel
            /\ calls[2].call = "set_focus" /\ calls[2].target = MainLabel
            /\ calls[3].target = MainLabel
            /\ Selected("add_habit"))
    /\ [][emitted' # emitted =>
            (Len(calls') = 3 /\ calls'[3] = Call("emit", MainLabel, TRUE))]_vars

\* C7 witness: add_habit emitted an event after show and set_focus.
C7_Witness ==
    /\ Selected("add_habit") /\ emitted = 1
    /\ Len(calls) = 3 /\ calls[3] = Call("emit", MainLabel, TRUE)

\* The Ok emits among the calls of the most recent callback.
EmitsOk == Len(SelectSeq(calls, LAMBDA c : c.call = "emit" /\ c.ok))

\* C8 as stated: add_habit with the main window registered leaves it
\* Visible and focused and produces exactly one event, and events never
\* outnumber add_habit selections.
C8_AddHabitAlwaysShowsAndEmits ==
    /\ emitted <= addHabitSelections
    /\ (Selected("add_habit") /\ Exists(MainLabel)) =>
          /\ windows[MainLabel] = "Visible" /\ focused = MainLabel
          /\ EmitsOk = 1

\* C8, amended: add_habit with the main window registered calls show,
\* set_focus and emit once each, in this order: the window is Visible when
\* show returned Ok, focused when set_focus returned Ok, and the count of
\* events grows by one when emit returned Ok and not at all otherwise.  No
\* other callback changes the count, which never exceeds the number of
\* add_habit selections.
C8_AddHabitEmitsAtMostOnce ==
    /\ [](emitted <= addHabitSelections)
    /\ []((Selected("add_habit") /\ Exists(MainLabel)) =>
            /\ Len(calls) = 3
            /\ calls[1].call = "show" /\ calls[2].call = "set_focus"
            /\ calls[3].call = "emit"
            /\ calls[1].ok => windows[MainLabel] = "Visible"
            /\ calls[2].ok => focused = MainLabel)
    /\ [][(dispatched' # dispatched /\ event' = MenuEvent("add_habit")
             /\ Exists(MainLabel)) =>
            emitted' = emitted + (IF calls'[3].ok THEN 1 ELSE 0)]_vars
    /\ [][emitted' # emitted =>
            (event' = MenuEvent("add_habit") /\ dispatched' = dispatched + 1)]_vars

\* C8 witness: the main window was hidden by a close request and the next
\* callback, add_habit, made it Visible and focused and emitted one event.
C8_Witness ==
    /\ dispatched = 2
    /\ MainLabel \in hiddenByGuard
    /\ Selected("add_habit")
    /\ windows[MainLabel] = "Visible" /\ focused = MainLabel
    /\ emitted = 1 /\ EmitsOk = 1

\* C9: open or add_habit dispatched with no window registered as main makes
\* no runtime call and changes neither the process, the flag, the emitted
\* events, nor any window's visibility or the focus.
C9_NoMainNoOp ==
    [][(dispatched' # dispatched
          /\ event' \in {MenuEvent("open"), MenuEvent("add_habit")}
          /\ ~Exists(MainLabel)) =>
         /\ calls' = <<>>
         /\ UNCHANGED <<process, exitCode, quitting, stores, windows, focused,
                        emitted>>]_vars

\* C9 witness: add_habit was selected with no main window while another
\* window was Visible; the process runs and nothing was emitted.
C9_Witness ==
    /\ Selected("add_habit") /\ ~Exists(MainLabel)
    /\ windows["settings"] = "Visible"
    /\ process = "Running" /\ emitted = 0 /\ calls = <<>>

\* C10 as stated: a Click with the main window registered leaves it Visible
\* and focused; the other tray icon events do nothing.
C10_ClickAlwaysShows ==
    /\ (Clicked /\ Exists(MainLabel)) =>
          (windows[MainLabel] = "Visible" /\ focused = MainLabel)
    /\ (event.src = "tray" /\ ~Clicked) => calls = <<>>

\* C10, amended: a Click, with any button and button state, with the main
\* window registered calls show and then set_focus on it: it is Visible
\* when show returned Ok and focused when set_focus returned Ok.  Every
\* other tray icon event makes no call and leaves the windows, the focus,
\* the flag and the emitted events unchanged.
C10_ClickShowsMain ==
    /\ []((Clicked /\ Exists(MainLabel)) =>
            /\ Len(calls) = 2
            /\ calls[1].call = "show" /\ calls[1].target = MainLabel
            /\ calls[2].call = "set_focus" /\ calls[2].target = MainLabel
            /\ calls[1].ok => windows[MainLabel] = "Visible"
            /\ calls[2].ok => focused = MainLabel)
    /\ [][(dispatched' # dispatched /\ event'.src = "tray" /\ event'.id # "Click") =>
            /\ calls' = <<>>
            /\ UNCHANGED <<process, exitCode, quitting, stores, windows, focused,
                           emitted>>]_vars

\* C10 witness: the main window was hidden by a close request and the next
\* callback, a Click with the right button pressed, made it Visible and
\* focused.
C10_Witness ==
    /\ dispatched = 2
    /\ MainLabel \in hiddenByGuard
    /\ Clicked /\ event.button = "Right" /\ event.button_state = "Down"
    /\ windows[MainLabel] = "Visible" /\ focused = MainLabel

\* The tray can handle a selection of each menu item and a click.
TrayResponsive ==
    /\ \A id \in MenuIds :
          ENABLED (\E r \in Outcomes, now \in BOOLEAN : OnMenuEvent(id, r, now))
    /\ ENABLED (\E ev \in TrayIconEvents, r \in Outcomes :
                   ev.kind = "Click" /\ OnTrayIconEvent(ev, r))

\* C11: a terminated process has quitting true and the exit code of quit,
\* and after a close request handled while quitting is false the process
\* is running with the tray installed and able to handle open, add_habit,
\* quit and a click (while the model has callbacks left to dispatch).
C11_TerminatedOnlyByQuit ==
    /\ process = "Terminated" => (quitting /\ stores > 0 /\ exitCode = <<QuitExitCode>>)
    /\ (CloseHandled /\ ~quitting) =>
          /\ process = "Running"
          /\ trayInstalled
          /\ dispatched < MaxEvents => TrayResponsive

\* C11 witness: the main window's close request was handled while
\* quitting is false: it is Hidden, the process runs and the tray responds.
C11_Witness ==
    /\ event = WindowEvent(MainLabel, "CloseRequested") /\ ~quitting
    /\ process = "Running" /\ windows[MainLabel] = "Hidden"
    /\ dispatched < MaxEvents /\ TrayResponsive

\* C12: when the menu, the default window icon or the tray build fails,
\* startup aborts: no callback was or will be dispatched, and an aborted
\* process changes no more.
C12_StartupAborts ==
    /\ [](startup \in {"menu", "icon", "tray"} =>
            /\ process = "Aborted" /\ ~trayInstalled
            /\ dispatched = 0 /\ event = NoEvent /\ calls = <<>>)
    /\ [][process = "Aborted" => UNCHANGED vars]_vars

\* C12 witness: startup aborted on the missing icon with a main window
\* registered, which no callback will act on.
C12_Witness ==
    /\ startup = "icon" /\ process = "Aborted"
    /\ Exists(MainLabel) /\ dispatched = 0

\* C13 as stated: in a debug build a failure to attach the log plugin
\* leaves setup successful, the application running with the tray.
C13_LogFailureIgnored ==
    (debugBuild /\ startup = "log") => (process # "Aborted" /\ trayInstalled)

\* C13, amended: the log plugin is attached, and can fail, only in a debug
\* build; its failure is returned by setup after the tray was built and
\* startup aborts with no callback dispatched.
C13_LogFailureAborts ==
    startup = "log" =>
        /\ debugBuild
        /\ trayInstalled
        /\ process = "Aborted"
        /\ dispatched = 0 /\ event = NoEvent

\* C13 witness: a debug build whose log plugin failed to attach: the tray
\* was built and startup aborted.
C13_Witness ==
    /\ debugBuild /\ startup = "log"
    /\ trayInstalled /\ process = "Aborted"

\* C14 as stated: no close request is handled while quitting is true, so
\* the guard never lets a close through and no window is destroyed.
C14_NoCloseWhileQuitting ==
    /\ ~(CloseHandled /\ quitting)
    /\ \A l \in Labels : windows[l] # "Destroyed"

\* C14, amended: a close request is handled while quitting is true only
\* while the exit request of quit is pending, and the guard lets a close
\* through only then: a window is destroyed only after quit has stored the
\* flag and asked for the exit.
C14_CloseWhileQuittingOnlyWhenExiting ==
    /\ []((\E l \in Labels : windows[l] = "Destroyed") =>
            /\ quitting /\ stores > 0
            /\ process \in {"Exiting", "Terminated"}
            /\ exitCode = <<QuitExitCode>>)
    /\ [][(dispatched' # dispatched /\ event'.src = "window"
             /\ event'.id = "CloseRequested" /\ quitting) =>
            (process = "Exiting" /\ process' = "Exiting")]_vars
    /\ [][(\E l \in Labels : windows'[l] = "Destroyed" /\ windows[l] # "Destroyed") =>
            (quitting /\ event'.src = "window" /\ event'.id = "CloseRequested")]_vars

\* C14 witness: a close request was let through while the exit was
\* pending, and the process has terminated since.
C14_Witness ==
    /\ CloseHandled /\ quitting
    /\ windows[event.target] = "Destroyed"
    /\ process = "Terminated"

\* C15: a close request handled while quitting is true makes no call,
\* neither prevent_close nor hide, and the window is destroyed, not Hidden;
\* prevent_close and hide are called only while quitting is false.
C15_CloseProceedsWhenQuitting ==
    /\ (CloseHandled /\ quitting) =>
          /\ calls = <<>>
          /\ windows[event.target] = "Destroyed"
          /\ focused # event.target
    /\ \A i \in DOMAIN calls :
          calls[i].call \in {"prevent_close", "hide"} => ~quitting

\* C15 witness: the main window, Visible when quit was selected, got a
\* close request before the exit was handled and was destroyed.
C15_Witness ==
    /\ event = WindowEvent(MainLabel, "CloseRequested") /\ quitting
    /\ dispatched = 2 /\ MainLabel \notin hiddenByGuard
    /\ calls = <<>> /\ windows[MainLabel] = "Destroyed"

\* C16: a window event other than CloseRequested makes no call and changes
\* neither the windows, the focus, the flag, the emitted events nor the
\* process.
C16_OtherWindowEventsIgnored ==
    [][(dispatched' # dispatched /\ event'.src = "window"
          /\ event'.id # "CloseRequested") =>
         /\ calls' = <<>>
         /\ UNCHANGED <<windows, focused, quitting, stores, emitted, hiddenByGuard,
                        process, exitCode>>]_vars

\* C16 witness: a Visible, focused window got a Focused event and is as it was.
C16_Witness ==
    /\ event.src = "window" /\ event.id = "Focused"
    /\ windows[event.target] = "Visible" /\ focused = event.target
    /\ calls = <<>>

\* C17: show, set_focus and emit are only ever called on the main window,
\* and a menu or tray icon callback changes the visibility of no other
\* window: one the guard has hidden is still Hidden after it.
C17_TrayActsOnMainOnly ==
    /\ [](\A i \in DOMAIN calls :
            calls[i].call \in {"show", "set_focus", "emit"} => calls[i].target = MainLabel)
    /\ [][(dispatched' # dispatched /\ event'.src \in {"menu", "tray"}) =>
            \A l \in Labels \ {MainLabel} : windows'[l] = windows[l]]_vars
    /\ [][(dispatched' # dispatched /\ event'.src \in {"menu", "tray"}) =>
            \A l \in hiddenByGuard \ {MainLabel} :
                windows[l] = "Hidden" => windows'[l] = "Hidden"]_vars

\* C17 witness: the guard has hidden the other window, and a tray click
\* that showed the main window left it Hidden.
C17_Witness ==
    /\ "settings" \in hiddenByGuard /\ windows["settings"] = "Hidden"
    /\ Clicked /\ Len(calls) = 2 /\ calls[1] = Call("show", MainLabel, TRUE)
    /\ windows[MainLabel] = "Visible"

\* C18: add_habit with the main window registered calls emit whatever show
\* and set_focus returned, and no call's failure changes the process; an
\* Ok emit counts as an emitted event whatever the two calls before it
\* returned.
C18_EmitDespiteFailures ==
    /\ []((Selected("add_habit") /\ calls # <<>>) =>
            /\ Len(calls) = 3
            /\ calls[3].call = "emit")
    /\ [][(dispatched' # dispatched /\ event' = MenuEvent("add_habit")
             /\ Exists(MainLabel)) =>
            /\ calls' # <<>>
            /\ UNCHANGED <<process, exitCode>>
            /\ calls'[Len(calls')].call = "emit"
            /\ calls'[Len(calls')].ok => emitted' = emitted + 1]_vars

\* C18 witness: show and set_focus both failed, the event was emitted, and
\* the main window is still Hidden and without focus.
C18_Witness ==
    /\ Selected("add_habit") /\ Len(calls) = 3
    /\ ~calls[1].ok /\ ~calls[2].ok /\ calls[3].ok
    /\ emitted = 1
    /\ windows[MainLabel] = "Hidden" /\ focused # MainLabel
    /\ process = "Running"

====
